---- MODULE Spec2Model ----
(***************************************************************************)
(* Progress / mastery tracking of the STEMentor backend                    *)
(* (backend/app/services/progress_service.py, ProgressService).            *)
(*                                                                         *)
(* The database is the state: the topics table, the progress_records       *)
(* table, the skill_assessment_records table and the study_sessions table, *)
(* each a sequence of rows in primary-key order.  Every handler of         *)
(* ProgressService is one action: it runs in one request-scoped session    *)
(* and either commits or raises, and a raise leaves the database as it was *)
(* (get_async_session rolls the session back).  SpecSessions splits the    *)
(* two writing handlers at their awaits, where requests interleave.        *)
(*                                                                         *)
(* Encodings.  An optional (nullable) value is a sequence of length at     *)
(* most one: <<>> is None.  confidence_score is kept in hundredths         *)
(* (0.85 is 85).  success_rate is the exact quotient [num, den] of the     *)
(* float division that produced it; for the small integers of the model    *)
(* the float comparisons against 0.9, 0.7 and 0.5 agree with the           *)
(* comparisons of the exact quotient.  A timestamp is the value of the     *)
(* clock `now` when datetime.utcnow() was read.                            *)
(***************************************************************************)
EXTENDS Integers, Sequences, FiniteSets, TLC

VARIABLES
    topics,                    \* rows of the topics table (read only here)
    progress_records,          \* rows of the progress_records table
    skill_assessment_records,  \* rows of the skill_assessment_records table
    study_sessions,            \* rows of the study_sessions table
    sessions,                  \* the database sessions of the requests in
                               \* flight, by client
    now,                       \* the wall clock read by datetime.utcnow()
    last                       \* the last request served, the level it found
                               \* and what it returned or raised

vars == <<topics, progress_records, skill_assessment_records, study_sessions,
          sessions, now, last>>

---------------------------------------------------------------------------
(* Bounds of the model *)

\* the clock takes the values 0..MaxTime
MaxTime == 1
\* no progress record is assessed more than MaxAttempts times
MaxAttempts == 6
\* time_spent_minutes is not driven above MaxMinutes
MaxMinutes == 1
\* the topics tables of the read-only checks have up to NumTopics rows
NumTopics == 2
\* the recommendation limits tried are -1 .. MaxLimit
MaxLimit == 2
\* the classification alone is run up to MaxRuns times on a record
MaxRuns == 2
\* the streak checks record up to MaxSessions study sessions
MaxSessions == 3
\* the clock of the streak checks runs through the days 0 .. MaxDay
MaxDay == 3
\* the clock ticks TicksPerDay times in a calendar day
TicksPerDay == 2
\* the clients send up to MaxRequests requests together
MaxRequests == 3

---------------------------------------------------------------------------
(* Values *)

None == <<>>
Some(v) == <<v>>

NOT_STARTED == "not_started"
LEARNING == "learning"
PRACTICING == "practicing"
MASTERED == "mastered"
MasteryLevel == {NOT_STARTED, LEARNING, PRACTICING, MASTERED}

\* a float quotient num / den, and the float literal 0.0
Rate(n, d) == [num |-> n, den |-> d]
ZeroRate == Rate(0, 1)
\* rate >= tenths / 10 and rate < tenths / 10
RateGE(rate, tenths) == rate.num * 10 >= tenths * rate.den
RateLT(rate, tenths) == rate.num * 10 < tenths * rate.den
RateEq(a, b) == a.num * b.den = b.num * a.den

\* Python's seq[:n]: the first n elements, and for a negative n all but the
\* last -n elements
Slice(seq, n) ==
    LET k == IF n >= 0 THEN (IF n < Len(seq) THEN n ELSE Len(seq))
             ELSE (IF Len(seq) + n > 0 THEN Len(seq) + n ELSE 0)
    IN  SubSeq(seq, 1, k)

---------------------------------------------------------------------------
(* The ORM's view of a progress record *)

\* ProgressRecord(user_id=1, topic_id=t): an object on which only the
\* constructor's arguments are set; a column default is applied by the
\* INSERT, so every other attribute reads None until the commit
NewProgressRecord(t) == [topic_id |-> t]

\* obj.name is None: the attribute of a new object that was never assigned
IsNone(obj, name) == name \notin DOMAIN obj

\* obj.name for a nullable column (its rows hold an optional value already)
Nullable(obj, name) == IF name \in DOMAIN obj THEN obj[name] ELSE None

\* obj.name = v
SetAttr(obj, name, v) == [n \in DOMAIN obj \cup {name} |-> IF n = name THEN v ELSE obj[n]]

\* the column defaults and nullable columns of the progress_records table
ColumnDefaults ==
    [mastery_level |-> NOT_STARTED,
     confidence_score |-> 0,
     time_spent_minutes |-> 0,
     total_attempts |-> 0,
     successful_attempts |-> 0,
     success_rate |-> ZeroRate,
     last_practice_at |-> None,
     mastery_achieved_at |-> None,
     perceived_difficulty |-> None,
     engagement_level |-> None]

\* the row the commit writes for obj: an INSERT (with the next primary key
\* and the column defaults) when obj is new, else an UPDATE of its row
Flush(rows, obj) ==
    IF "id" \in DOMAIN obj
    THEN [rows EXCEPT ![obj.id] = obj]
    ELSE Append(rows, (obj @@ ColumnDefaults) @@ [id |-> Len(rows) + 1])

\* select(ProgressRecord).where(topic_id == t)
RecordsOf(rows, t) == SelectSeq(rows, LAMBDA r : r.topic_id = t)

---------------------------------------------------------------------------
(* Mastery Ledger *)

\* _update_mastery_level with the PRACTICING test ahead of the MASTERED test
_update_mastery_level_practicing_first(obj, t) ==
    IF obj.total_attempts >= 3 /\ RateGE(obj.success_rate, 7)
    THEN SetAttr(obj, "mastery_level", PRACTICING)
    ELSE IF obj.total_attempts >= 1
    THEN SetAttr(obj, "mastery_level", LEARNING)
    ELSE SetAttr(obj, "mastery_level", NOT_STARTED)

\* _update_mastery_level stamping mastery_achieved_at on every entry
_update_mastery_level_restamp(obj, t) ==
    IF obj.total_attempts >= 5 /\ RateGE(obj.success_rate, 9) /\ obj.confidence_score >= 80
    THEN SetAttr(SetAttr(obj, "mastery_level", MASTERED), "mastery_achieved_at", Some(t))
    ELSE IF obj.total_attempts >= 3 /\ RateGE(obj.success_rate, 7)
    THEN SetAttr(obj, "mastery_level", PRACTICING)
    ELSE IF obj.total_attempts >= 1
    THEN SetAttr(obj, "mastery_level", LEARNING)
    ELSE SetAttr(obj, "mastery_level", NOT_STARTED)

\* _update_mastery_level without its final else branch
_update_mastery_level_no_else(obj, t) ==
    IF obj.total_attempts >= 5 /\ RateGE(obj.success_rate, 9) /\ obj.confidence_score >= 80
    THEN LET m == SetAttr(obj, "mastery_level", MASTERED)
         IN  IF m.mastery_achieved_at = None
             THEN SetAttr(m, "mastery_achieved_at", Some(t))
             ELSE m
    ELSE IF obj.total_attempts >= 3 /\ RateGE(obj.success_rate, 7)
    THEN SetAttr(obj, "mastery_level", PRACTICING)
    ELSE IF obj.total_attempts >= 1
    THEN SetAttr(obj, "mastery_level", LEARNING)
    ELSE obj

\* ProgressService._update_mastery_level on a record whose counters are set
_update_mastery_level(obj, t) ==
    LET success_rate == obj.success_rate
        confidence == obj.confidence_score
        attempts == obj.total_attempts
    IN  IF attempts >= 5 /\ RateGE(success_rate, 9) /\ confidence >= 80
        THEN LET m == SetAttr(obj, "mastery_level", MASTERED)
             IN  IF Nullable(m, "mastery_achieved_at") = None
                 THEN SetAttr(m, "mastery_achieved_at", Some(t))
                 ELSE m
        ELSE IF attempts >= 3 /\ RateGE(success_rate, 7)
        THEN SetAttr(obj, "mastery_level", PRACTICING)
        ELSE IF attempts >= 1
        THEN SetAttr(obj, "mastery_level", LEARNING)
        ELSE SetAttr(obj, "mastery_level", NOT_STARTED)

\* what a handler did: the exception it raised (None when it committed) and
\* the tables after it
Committed(rows, log) == [raised |-> None, rows |-> rows, log |-> log]
Raised(exc, rows, log) == [raised |-> Some(exc), rows |-> rows, log |-> log]

\* the metrics block with success_rate computed ahead of the success count
UpdateProgressMetrics_stale_rate(progress_record, assessment, t) ==
    LET total == progress_record.total_attempts + 1
        successful == IF assessment.is_correct = Some(TRUE)
                      THEN progress_record.successful_attempts + 1
                      ELSE progress_record.successful_attempts
    IN  [progress_record EXCEPT
            !.total_attempts = total,
            !.successful_attempts = successful,
            !.success_rate = Rate(progress_record.successful_attempts, total),
            !.last_practice_at = Some(t)]

\* a metrics block that also sets the confidence to the new success rate
UpdateProgressMetrics_sets_confidence(progress_record, assessment, t) ==
    LET total == progress_record.total_attempts + 1
        successful == IF assessment.is_correct = Some(TRUE)
                      THEN progress_record.successful_attempts + 1
                      ELSE progress_record.successful_attempts
    IN  [progress_record EXCEPT
            !.total_attempts = total,
            !.successful_attempts = successful,
            !.success_rate = Rate(successful, total),
            !.confidence_score = (successful * 100) \div total,
            !.last_practice_at = Some(t)]

\* the "Update progress metrics" block of record_skill_assessment
UpdateProgressMetrics(progress_record, assessment, t) ==
    LET total == progress_record.total_attempts + 1
        successful == IF assessment.is_correct = Some(TRUE)
                      THEN progress_record.successful_attempts + 1
                      ELSE progress_record.successful_attempts
    IN  [progress_record EXCEPT
            !.total_attempts = total,
            !.successful_attempts = successful,
            !.success_rate = Rate(successful, total),
            !.last_practice_at = Some(t)]

\* ProgressService.record_skill_assessment at time t
record_skill_assessment(rows, log, assessment, t) ==
    LET found == RecordsOf(rows, assessment.topic_id)
        progress_record == IF found = <<>> THEN NewProgressRecord(assessment.topic_id)
                           ELSE found[1]
    IN  IF Len(found) > 1 THEN Raised("MultipleResultsFound", rows, log)
        ELSE IF IsNone(progress_record, "total_attempts")
        THEN \* None += 1
             Raised("TypeError", rows, log)
        ELSE LET assessment_record == [id |-> Len(log) + 1,
                                       progress_record_id |-> progress_record.id,
                                       is_correct |-> assessment.is_correct]
                 counted == UpdateProgressMetrics(progress_record, assessment, t)
             IN  Committed(Flush(rows, _update_mastery_level(counted, t)),
                           Append(log, assessment_record))

\* the level assignment without its guard: an absent level resets the record
SetMasteryLevel_resets(progress_record, progress) ==
    IF progress.mastery_level # None
    THEN SetAttr(progress_record, "mastery_level", progress.mastery_level[1])
    ELSE SetAttr(progress_record, "mastery_level", NOT_STARTED)

\* if progress.mastery_level: progress_record.mastery_level = ...
SetMasteryLevel(progress_record, progress) ==
    IF progress.mastery_level # None
    THEN SetAttr(progress_record, "mastery_level", progress.mastery_level[1])
    ELSE progress_record

\* if progress.confidence_score is not None: ...
SetConfidenceScore(progress_record, progress) ==
    IF progress.confidence_score # None
    THEN SetAttr(progress_record, "confidence_score", progress.confidence_score[1])
    ELSE progress_record

\* if progress.time_spent_minutes: the guard of the += (0 is falsy)
AddsTime(progress) ==
    progress.time_spent_minutes # None /\ progress.time_spent_minutes[1] # 0

\* the time assignment with = in place of +=
AddTimeSpent_replaces(progress_record, progress) ==
    IF AddsTime(progress)
    THEN [progress_record EXCEPT !.time_spent_minutes = progress.time_spent_minutes[1]]
    ELSE progress_record

\* progress_record.time_spent_minutes += progress.time_spent_minutes
AddTimeSpent(progress_record, progress) ==
    IF AddsTime(progress)
    THEN [progress_record EXCEPT !.time_spent_minutes = @ + progress.time_spent_minutes[1]]
    ELSE progress_record

\* if progress.perceived_difficulty is not None: ...
SetPerceivedDifficulty(progress_record, progress) ==
    IF progress.perceived_difficulty # None
    THEN SetAttr(progress_record, "perceived_difficulty", progress.perceived_difficulty)
    ELSE progress_record

\* ProgressService.update_topic_progress at time t
update_topic_progress(rows, log, progress, t) ==
    LET found == RecordsOf(rows, progress.topic_id)
        progress_record == IF found = <<>> THEN NewProgressRecord(progress.topic_id)
                           ELSE found[1]
        with_confidence == SetConfidenceScore(SetMasteryLevel(progress_record, progress),
                                              progress)
    IN  IF Len(found) > 1 THEN Raised("MultipleResultsFound", rows, log)
        ELSE IF AddsTime(progress) /\ IsNone(with_confidence, "time_spent_minutes")
        THEN \* None += minutes
             Raised("TypeError", rows, log)
        ELSE LET updated == SetPerceivedDifficulty(AddTimeSpent(with_confidence, progress),
                                                   progress)
             IN  Committed(Flush(rows, SetAttr(updated, "last_practice_at", Some(t))), log)

---------------------------------------------------------------------------
(* Prerequisite Graph Resolver and Recommendation Engine *)

\* the resolver without the test that the topic is not mastered itself
_find_topics_ready_for_learning_keeps_mastered(all_topics, rows) ==
    LET mastered_topic_ids ==
            {rows[i].topic_id : i \in {j \in DOMAIN rows : rows[j].mastery_level = MASTERED}}
        Ready(topic) ==
            LET prerequisites == IF topic.prerequisites = None THEN <<>>
                                 ELSE topic.prerequisites[1]
            IN  \A k \in DOMAIN prerequisites : prerequisites[k] \in mastered_topic_ids
    IN  SelectSeq(all_topics, Ready)

\* the resolver with any() in place of all()
_find_topics_ready_for_learning_any(all_topics, rows) ==
    LET mastered_topic_ids ==
            {rows[i].topic_id : i \in {j \in DOMAIN rows : rows[j].mastery_level = MASTERED}}
        Ready(topic) ==
            LET prerequisites == IF topic.prerequisites = None THEN <<>>
                                 ELSE topic.prerequisites[1]
            IN  /\ \E k \in DOMAIN prerequisites : prerequisites[k] \in mastered_topic_ids
                /\ topic.id \notin mastered_topic_ids
    IN  SelectSeq(all_topics, Ready)

\* ProgressService._find_topics_ready_for_learning: the ready topics, in
\* the order of the topics table
_find_topics_ready_for_learning(all_topics, rows) ==
    LET mastered_topic_ids ==
            {rows[i].topic_id : i \in {j \in DOMAIN rows : rows[j].mastery_level = MASTERED}}
        Ready(topic) ==
            LET prerequisites == IF topic.prerequisites = None THEN <<>>
                                 ELSE topic.prerequisites[1]
            IN  /\ \A k \in DOMAIN prerequisites : prerequisites[k] \in mastered_topic_ids
                /\ topic.id \notin mastered_topic_ids
    IN  SelectSeq(all_topics, Ready)

\* a review entry that is "high" up to a success rate of 0.5
ReviewEntry_high_at_half(record) ==
    [type |-> "review",
     priority |-> IF RateLT(record.success_rate, 5) \/ RateEq(record.success_rate, Rate(1, 2))
                  THEN "high" ELSE "medium",
     topic_id |-> record.topic_id]

\* the review entry of a struggling record
ReviewEntry(record) ==
    [type |-> "review",
     priority |-> IF RateLT(record.success_rate, 5) THEN "high" ELSE "medium",
     topic_id |-> record.topic_id]

\* the new-topic entry of a ready topic
NewTopicEntry(topic) ==
    [type |-> "new_topic", priority |-> "medium", topic_id |-> topic.id]

RECURSIVE ReviewEntries(_, _)
\* the loop over struggling_topics[:limit]: an entry for every record whose
\* topic row exists
ReviewEntries(all_topics, records) ==
    IF records = <<>> THEN <<>>
    ELSE LET record == Head(records)
             topic == SelectSeq(all_topics, LAMBDA tp : tp.id = record.topic_id)
             rest == ReviewEntries(all_topics, Tail(records))
         IN  IF topic # <<>> THEN <<ReviewEntry(record)>> \o rest ELSE rest

\* the review loop over every struggling record
ReviewCandidates_unsliced(struggling_topics, limit) == struggling_topics

\* the slice of ready_topics bounded by limit alone
RemainingSlots_ignores_reviews(limit, recommendations) == limit

\* struggling_topics[:limit]
ReviewCandidates(struggling_topics, limit) == Slice(struggling_topics, limit)

\* limit - len(recommendations), the bound of the slice of ready_topics
RemainingSlots(limit, recommendations) == limit - Len(recommendations)

\* ProgressService.generate_recommendations
generate_recommendations(all_topics, rows, limit) ==
    LET struggling_topics ==
            SelectSeq(rows, LAMBDA record :
                RateLT(record.success_rate, 7) \/ record.confidence_score < 60)
        reviews == ReviewEntries(all_topics, ReviewCandidates(struggling_topics, limit))
        ready_topics == _find_topics_ready_for_learning(all_topics, rows)
        chosen == Slice(ready_topics, RemainingSlots(limit, reviews))
    IN  reviews \o [k \in DOMAIN chosen |-> NewTopicEntry(chosen[k])]

---------------------------------------------------------------------------
(* Requests and the state machine *)

\* the topics of the scenario: topic 1 (A) has no prerequisites, topic 2 (B)
\* requires topic 1
ScenarioTopics ==
    <<[id |-> 1, prerequisites |-> None],
      [id |-> 2, prerequisites |-> Some(<<1>>)]>>

\* SkillAssessment request bodies: right and wrong answers on topic 1
AssessmentInputs ==
    [topic_id : {1}, is_correct : {Some(TRUE), Some(FALSE)}]

\* a ProgressUpdate request body; an absent field is None
ProgressUpdate(t, level, confidence, minutes, difficulty) ==
    [topic_id |-> t, mastery_level |-> level, confidence_score |-> confidence,
     time_spent_minutes |-> minutes, perceived_difficulty |-> difficulty]

\* ProgressUpdate request bodies: on topic 1 an empty update, a confidence
\* report, two level overrides and a study-time report; on topic 2 an
\* override
ProgressInputs ==
    {ProgressUpdate(1, None, None, None, None),
     ProgressUpdate(1, None, Some(85), None, None),
     ProgressUpdate(1, Some(LEARNING), None, None, None),
     ProgressUpdate(1, Some(MASTERED), None, None, None),
     ProgressUpdate(1, None, None, Some(1), Some(3)),
     ProgressUpdate(2, Some(MASTERED), None, None, None)}

\* the clock does not run backwards
Ticks == {t \in now .. now + 1 : t <= MaxTime}

\* the mastery level of a topic's record before a request, None without one
LevelOf(t) == LET found == RecordsOf(progress_records, t)
              IN  IF found = <<>> THEN None ELSE Some(found[1].mastery_level)

NoRequest == [op |-> "none"]

Init ==
    /\ topics = ScenarioTopics
    /\ progress_records = <<>>
    /\ skill_assessment_records = <<>>
    /\ study_sessions = <<>>
    /\ sessions = <<>>
    /\ now = 0
    /\ last = NoRequest

\* POST /assess-skill
RecordSkillAssessment ==
    \E assessment \in AssessmentInputs, t \in Ticks :
        LET out == record_skill_assessment(progress_records, skill_assessment_records,
                                           assessment, t)
        IN  /\ \A r \in {out.rows[i] : i \in DOMAIN out.rows} : r.total_attempts <= MaxAttempts
            /\ progress_records' = out.rows
            /\ skill_assessment_records' = out.log
            /\ now' = t
            /\ last' = [op |-> "record_skill_assessment", request |-> assessment,
                        raised |-> out.raised,
                        level_before |-> LevelOf(assessment.topic_id)]
            /\ UNCHANGED <<topics, study_sessions, sessions>>

\* POST /update-progress
UpdateTopicProgress ==
    \E progress \in ProgressInputs, t \in Ticks :
        LET out == update_topic_progress(progress_records, skill_assessment_records,
                                         progress, t)
        IN  /\ \A r \in {out.rows[i] : i \in DOMAIN out.rows} : r.time_spent_minutes <= MaxMinutes
            /\ progress_records' = out.rows
            /\ skill_assessment_records' = out.log
            /\ now' = t
            /\ last' = [op |-> "update_topic_progress", request |-> progress,
                        raised |-> out.raised,
                        level_before |-> LevelOf(progress.topic_id)]
            /\ UNCHANGED <<topics, study_sessions, sessions>>

Next ==
    \/ RecordSkillAssessment
    \/ UpdateTopicProgress

Spec == Init /\ [][Next]_vars

---------------------------------------------------------------------------
(* Database states for the checks of the read-only handlers.  Every state  *)
(* drawn here is one the handlers above produce: a record is created by an *)
(* empty update, assessed, given a confidence and a level override.        *)

\* a committed progress record
Row(id, t, level, confidence, attempts, successes, achieved) ==
    [id |-> id, topic_id |-> t, mastery_level |-> level,
     confidence_score |-> confidence, time_spent_minutes |-> 0,
     total_attempts |-> attempts, successful_attempts |-> successes,
     success_rate |-> IF attempts = 0 THEN ZeroRate ELSE Rate(successes, attempts),
     last_practice_at |-> Some(0), mastery_achieved_at |-> achieved,
     perceived_difficulty |-> None, engagement_level |-> None]

RECURSIVE AssessmentsOf(_, _, _)
\* the assessment rows of one record: its right answers, then its wrong ones
AssessmentsOf(row, k, first_id) ==
    IF k > row.total_attempts THEN <<>>
    ELSE <<[id |-> first_id, progress_record_id |-> row.id,
            is_correct |-> Some(k <= row.successful_attempts)]>>
         \o AssessmentsOf(row, k + 1, first_id + 1)

RECURSIVE LogOf(_, _)
\* an assessment log that gives the rows their counters
LogOf(rows, first_id) ==
    IF rows = <<>> THEN <<>>
    ELSE AssessmentsOf(Head(rows), 1, first_id)
         \o LogOf(Tail(rows), first_id + Head(rows).total_attempts)

\* topics tables: every topic has no prerequisite list, an empty one, one
\* prerequisite or the two prerequisites 1 and 2
PrerequisiteLists ==
    {None, Some(<<>>), Some(<<1, 2>>)} \cup {Some(<<j>>) : j \in 1 .. NumTopics}
TopicTables ==
    UNION {{[i \in 1 .. n |-> [id |-> i, prerequisites |-> f[i]]] :
                f \in [1 .. n -> PrerequisiteLists]} : n \in 1 .. NumTopics}

\* what a learner's record can look like to the recommendation engine:
\* failing, succeeding without confidence, succeeding with confidence, the
\* last one overridden to MASTERED, and half right with confidence 0.6
ReadProfiles ==
    {[level |-> LEARNING, confidence |-> 0, attempts |-> 1, successes |-> 0],
     [level |-> LEARNING, confidence |-> 0, attempts |-> 1, successes |-> 1],
     [level |-> LEARNING, confidence |-> 85, attempts |-> 1, successes |-> 1],
     [level |-> MASTERED, confidence |-> 85, attempts |-> 1, successes |-> 1],
     [level |-> LEARNING, confidence |-> 60, attempts |-> 2, successes |-> 1]}

\* ledgers over the topics 1 .. n: records of distinct topics in any order
Ledgers(n) ==
    UNION {{[i \in 1 .. k |->
                Row(i, order[i], prof[i].level, prof[i].confidence,
                    prof[i].attempts, prof[i].successes, None)] :
            order \in {o \in [1 .. k -> 1 .. n] :
                          \A a, b \in 1 .. k : a # b => o[a] # o[b]},
            prof \in [1 .. k -> ReadProfiles]} : k \in 0 .. n}

LimitInputs == -1 .. MaxLimit

InitReads ==
    /\ topics \in TopicTables
    /\ progress_records \in Ledgers(Len(topics))
    /\ skill_assessment_records = LogOf(progress_records, 1)
    /\ study_sessions = <<>>
    /\ sessions = <<>>
    /\ now = 0
    /\ last = NoRequest

\* a call of _find_topics_ready_for_learning
FindTopicsReadyForLearning ==
    /\ last' = [op |-> "_find_topics_ready_for_learning",
                response |-> _find_topics_ready_for_learning(topics, progress_records)]
    /\ UNCHANGED <<topics, progress_records, skill_assessment_records, study_sessions,
                     sessions, now>>

\* GET /recommendations?limit=
GenerateRecommendations ==
    \E limit \in LimitInputs :
        /\ last' = [op |-> "generate_recommendations", limit |-> limit,
                    response |-> generate_recommendations(topics, progress_records, limit)]
        /\ UNCHANGED <<topics, progress_records, skill_assessment_records, study_sessions,
                     sessions, now>>

NextReads ==
    \/ FindTopicsReadyForLearning
    \/ GenerateRecommendations

SpecReads == InitReads /\ [][NextReads]_vars

---------------------------------------------------------------------------
(* Record states for the check of the classification alone: two records    *)
(* with the same counters and confidence, at any level (a level override   *)
(* sets any level), with mastery_achieved_at set only where five right     *)
(* answers allow it.                                                       *)

ClassifyConfidences == {0, 85}

AchievedAt(successes) == IF successes >= 5 THEN {None, Some(0)} ELSE {None}

ClassifyLedgers ==
    {<<Row(1, 1, l1, c, a, k, m1), Row(2, 2, l2, c, a, k, m2)>> :
        <<l1, l2, c, a, k, m1, m2>> \in
            {x \in MasteryLevel \X MasteryLevel \X ClassifyConfidences
                     \X (0 .. MaxAttempts) \X (0 .. MaxAttempts)
                     \X {None, Some(0)} \X {None, Some(0)} :
                /\ x[5] <= x[4]
                /\ x[6] \in AchievedAt(x[5])
                /\ x[7] \in AchievedAt(x[5])}}

InitClassify ==
    /\ topics = ScenarioTopics
    /\ progress_records \in ClassifyLedgers
    /\ skill_assessment_records = LogOf(progress_records, 1)
    /\ study_sessions = <<>>
    /\ sessions = <<>>
    /\ now = 0
    /\ last = [op |-> "none", runs |-> [id \in DOMAIN progress_records |-> 0]]

\* a call of _update_mastery_level on record id, with nothing else changed
UpdateMasteryLevel ==
    \E id \in DOMAIN progress_records, t \in Ticks :
        /\ last.runs[id] < MaxRuns
        /\ progress_records' =
               [progress_records EXCEPT ![id] = _update_mastery_level(@, t)]
        /\ now' = t
        /\ last' = [op |-> "_update_mastery_level", id |-> id,
                    runs |-> [last.runs EXCEPT ![id] = @ + 1]]
        /\ UNCHANGED <<topics, skill_assessment_records, study_sessions, sessions>>

NextClassify == UpdateMasteryLevel

SpecClassify == InitClassify /\ [][NextClassify]_vars

---------------------------------------------------------------------------
(* Streak Calculator *)

\* range(365): the days the walk looks back
LookbackDays == 365

\* func.date(start_time) and date.today(): the calendar day of a clock value
DateOf(t) == t \div TicksPerDay

Max(a, b) == IF a >= b THEN a ELSE b

\* "Check if user studied on this date": a session started on check_date
HasActivity(rows, check_date) ==
    \E k \in DOMAIN rows : DateOf(rows[k].start_time) = check_date

RECURSIVE StreakWalk_skips_gaps(_, _, _, _)
\* a walk that goes on over inactive days, to the oldest session
StreakWalk_skips_gaps(rows, current_date, i, acc) ==
    IF i >= LookbackDays THEN acc
    ELSE LET check_date == current_date - i
         IN  IF HasActivity(rows, check_date)
             THEN StreakWalk_skips_gaps(rows, current_date, i + 1,
                                        [streak_days |-> acc.streak_days + 1,
                                         longest_streak |-> Max(acc.longest_streak,
                                                                acc.streak_days + 1)])
             ELSE IF i = 0 THEN acc
             ELSE IF \A k \in DOMAIN rows : DateOf(rows[k].start_time) > check_date
             THEN acc
             ELSE StreakWalk_skips_gaps(rows, current_date, i + 1, acc)

RECURSIVE StreakWalk_global_scan(_, _, _, _)
\* a walk whose longest_streak is the longest run of active days among all
\* the sessions up to today
StreakWalk_global_scan(rows, current_date, i, acc) ==
    IF i >= LookbackDays THEN acc
    ELSE LET check_date == current_date - i
         IN  IF HasActivity(rows, check_date)
             THEN StreakWalk_global_scan(rows, current_date, i + 1,
                                         [streak_days |-> acc.streak_days + 1,
                                          longest_streak |-> Max(acc.longest_streak,
                                                                 acc.streak_days + 1)])
             ELSE IF \A k \in DOMAIN rows : DateOf(rows[k].start_time) > check_date
             THEN acc
             ELSE [streak_days |-> acc.streak_days,
                   longest_streak |->
                       Max(acc.longest_streak,
                           StreakWalk_global_scan(rows, check_date - 1, 0,
                               [streak_days |-> 0,
                                longest_streak |-> 0]).longest_streak)]

RECURSIVE StreakWalk(_, _, _, _)
\* the loop of calculate_study_streak from iteration i on, with streak_days
\* and longest_streak as they stand
StreakWalk(rows, current_date, i, acc) ==
    IF i >= LookbackDays THEN acc
    ELSE LET check_date == current_date - i
         IN  IF HasActivity(rows, check_date)
             THEN StreakWalk(rows, current_date, i + 1,
                             [streak_days |-> acc.streak_days + 1,
                              longest_streak |-> Max(acc.longest_streak,
                                                     acc.streak_days + 1)])
             ELSE IF i = 0 THEN acc                  \* today has no activity
             ELSE IF acc.streak_days > 0 THEN acc    \* previous streak ended
             ELSE StreakWalk(rows, current_date, i + 1, acc)

\* ProgressService.calculate_study_streak called at time t
calculate_study_streak(rows, t) ==
    LET walked == StreakWalk(rows, DateOf(t), 0,
                             [streak_days |-> 0, longest_streak |-> 0])
    IN  [current_streak |-> walked.streak_days,
         longest_streak |-> walked.longest_streak,
         streak_maintained |-> walked.streak_days > 0]

\* ProgressService.record_study_session: the INSERT of the session
record_study_session(rows, session_data) ==
    Append(rows, [id |-> Len(rows) + 1, start_time |-> session_data.start_time])

\* the clock of the streak checks: it stands or moves on, by up to a day
StreakTicks == {t \in now .. now + TicksPerDay : t < (MaxDay + 1) * TicksPerDay}

\* the start_time a client reports: the time of the request or a day before
StartTimes(t) == {t, t - TicksPerDay}

InitStreak ==
    /\ topics = ScenarioTopics
    /\ progress_records = <<>>
    /\ skill_assessment_records = <<>>
    /\ study_sessions = <<>>
    /\ sessions = <<>>
    /\ now = 0
    /\ last = NoRequest

\* POST /study-sessions
RecordStudySession ==
    \E t \in StreakTicks : \E start_time \in StartTimes(t) :
        /\ Len(study_sessions) < MaxSessions
        /\ study_sessions' = record_study_session(study_sessions,
                                                  [start_time |-> start_time])
        /\ now' = t
        /\ last' = [op |-> "record_study_session"]
        /\ UNCHANGED <<topics, progress_records, skill_assessment_records, sessions>>

\* GET /streak
CalculateStudyStreak ==
    \E t \in StreakTicks :
        /\ now' = t
        /\ last' = [op |-> "calculate_study_streak",
                    response |-> calculate_study_streak(study_sessions, t)]
        /\ UNCHANGED <<topics, progress_records, skill_assessment_records,
                       study_sessions, sessions>>

NextStreak ==
    \/ RecordStudySession
    \/ CalculateStudyStreak

SpecStreak == InitStreak /\ [][NextStreak]_vars

---------------------------------------------------------------------------
(* Heatmap Aggregator and topic detail view *)

\* the topic row with the given id, None without one (scalar_one_or_none)
TopicOf(all_topics, topic_id) ==
    LET found == SelectSeq(all_topics, LAMBDA tp : tp.id = topic_id)
    IN  IF found = <<>> THEN None ELSE Some(found[1])

\* "if subject:" a subject filter was given and is not the empty string
Filters(subject) == subject # None /\ subject[1] # ""

\* the query without its subject filter
HeatmapRecords_unfiltered(all_topics, rows, subject) ==
    SelectSeq(rows, LAMBDA record : TopicOf(all_topics, record.topic_id) # None)

\* select(ProgressRecord).join(Topic) with the optional subject filter
HeatmapRecords(all_topics, rows, subject) ==
    SelectSeq(rows, LAMBDA record :
        LET topic == TopicOf(all_topics, record.topic_id)
        IN  /\ topic # None
            /\ Filters(subject) => topic[1].subject = subject)

\* the cell of one record
HeatmapCell(topic, record) ==
    [name |-> topic.title,
     mastery |-> record.mastery_level,
     confidence |-> record.confidence_score,
     time_spent |-> record.time_spent_minutes,
     success_rate |-> record.success_rate,
     last_practice |-> record.last_practice_at]

\* topic.subject or "General"
SubjectName(topic) ==
    IF topic.subject = None \/ topic.subject[1] = "" THEN "General"
    ELSE topic.subject[1]

\* topics[name] = cell in a dict kept in insertion order: a name already
\* there keeps its place and takes the new cell
PutCell(cells, cell) ==
    IF \E k \in DOMAIN cells : cells[k].name = cell.name
    THEN [k \in DOMAIN cells |-> IF cells[k].name = cell.name THEN cell ELSE cells[k]]
    ELSE Append(cells, cell)

\* heatmap_data[subject_name][topic.title] = cell
PutSubjectCell(heatmap, subject_name, cell) ==
    IF \E k \in DOMAIN heatmap : heatmap[k].subject = subject_name
    THEN [k \in DOMAIN heatmap |->
             IF heatmap[k].subject = subject_name
             THEN [heatmap[k] EXCEPT !.topics = PutCell(@, cell)]
             ELSE heatmap[k]]
    ELSE Append(heatmap, [subject |-> subject_name, topics |-> <<cell>>])

RECURSIVE StructuredHeatmap(_, _, _)
\* the loop over the records, from the heatmap built so far
StructuredHeatmap(all_topics, records, heatmap) ==
    IF records = <<>> THEN heatmap
    ELSE LET record == Head(records)
             topic == TopicOf(all_topics, record.topic_id)
         IN  StructuredHeatmap(all_topics, Tail(records),
                 IF topic # None
                 THEN PutSubjectCell(heatmap, SubjectName(topic[1]),
                                     HeatmapCell(topic[1], record))
                 ELSE heatmap)

RECURSIVE TopicCount(_)
\* sum(len(s["topics"]) for s in structured_heatmap)
TopicCount(heatmap) ==
    IF heatmap = <<>> THEN 0
    ELSE Len(Head(heatmap).topics) + TopicCount(Tail(heatmap))

\* len([t for t in s["topics"] if t["mastery"] in levels])
CellsAt(s, levels) == Len(SelectSeq(s.topics, LAMBDA t : t.mastery \in levels))

RECURSIVE TopicCountAt(_, _)
\* sum(len([t for t in s["topics"] if t["mastery"] in levels]) for s in ...)
TopicCountAt(heatmap, levels) ==
    IF heatmap = <<>> THEN 0
    ELSE CellsAt(Head(heatmap), levels) + TopicCountAt(Tail(heatmap), levels)

\* the in_progress_topics count with "mastered" in its list of levels
InProgressTopics_counts_mastered(heatmap) ==
    TopicCountAt(heatmap, {LEARNING, PRACTICING, MASTERED})

\* the in_progress_topics count of the summary
InProgressTopics(heatmap) == TopicCountAt(heatmap, {LEARNING, PRACTICING})

\* ProgressService.generate_skill_heatmap
generate_skill_heatmap(all_topics, rows, subject) ==
    LET progress_records_found == HeatmapRecords(all_topics, rows, subject)
        structured_heatmap == StructuredHeatmap(all_topics, progress_records_found, <<>>)
    IN  [heatmap |-> structured_heatmap,
         summary |->
            [total_topics |-> TopicCount(structured_heatmap),
             mastered_topics |-> TopicCountAt(structured_heatmap, {MASTERED}),
             in_progress_topics |-> InProgressTopics(structured_heatmap)]]

\* .limit(10) of the recent assessments
RecentLimit == 10

\* the newest first
Reverse(seq) == [k \in DOMAIN seq |-> seq[Len(seq) + 1 - k]]

\* get_topic_mastery answering a default record for a pair without one
get_topic_mastery_synthesizes(all_topics, rows, log, topic_id) ==
    LET topic == TopicOf(all_topics, topic_id)
    IN  IF topic = None THEN None
        ELSE Some([topic |-> [id |-> topic[1].id, title |-> topic[1].title],
                   progress |-> [mastery_level |-> NOT_STARTED,
                                 confidence_score |-> 0,
                                 time_spent_minutes |-> 0,
                                 success_rate |-> ZeroRate,
                                 total_attempts |-> 0,
                                 successful_attempts |-> 0],
                   recent_assessments |-> <<>>])

\* ProgressService.get_topic_mastery: None, or the detail view
get_topic_mastery(all_topics, rows, log, topic_id) ==
    LET found == RecordsOf(rows, topic_id)
        topic == TopicOf(all_topics, topic_id)
    IN  IF found = <<>> THEN None
        ELSE IF topic = None THEN None
        ELSE LET progress_record == found[1]
                 recent_assessments ==
                     Slice(Reverse(SelectSeq(log, LAMBDA a :
                               a.progress_record_id = progress_record.id)),
                           RecentLimit)
             IN  Some([topic |-> [id |-> topic[1].id, title |-> topic[1].title],
                       progress |->
                          [mastery_level |-> progress_record.mastery_level,
                           confidence_score |-> progress_record.confidence_score,
                           time_spent_minutes |-> progress_record.time_spent_minutes,
                           success_rate |-> progress_record.success_rate,
                           total_attempts |-> progress_record.total_attempts,
                           successful_attempts |-> progress_record.successful_attempts],
                       recent_assessments |->
                          [k \in DOMAIN recent_assessments |->
                              [is_correct |-> recent_assessments[k].is_correct]]])

\* the endpoint: 404 when the service returns None
TopicMasteryResponse(mastery) ==
    IF mastery = None THEN [status |-> 404]
    ELSE [status |-> 200, body |-> mastery[1]]

\* topics tables with titles and subjects; two topics may share a title
Titles == {"Algebra", "Sets"}
Subjects == {None, Some("Math")}
ViewTopicTables ==
    UNION {{[i \in 1 .. n |-> [id |-> i, title |-> f[i][1], subject |-> f[i][2],
                               prerequisites |-> None]] :
                f \in [1 .. n -> Titles \X Subjects]} : n \in 1 .. NumTopics}

\* what a record can look like to a view: created by a manual update and
\* untouched, assessed once, assessed three times right, and overridden to
\* MASTERED
ViewProfiles ==
    {[level |-> NOT_STARTED, confidence |-> 0, attempts |-> 0, successes |-> 0],
     [level |-> LEARNING, confidence |-> 0, attempts |-> 1, successes |-> 0],
     [level |-> PRACTICING, confidence |-> 85, attempts |-> 3, successes |-> 3],
     [level |-> MASTERED, confidence |-> 85, attempts |-> 1, successes |-> 1]}

\* ledgers over the topics 1 .. n: records of distinct topics in any order
ViewLedgers(n) ==
    UNION {{[i \in 1 .. k |->
                Row(i, order[i], prof[i].level, prof[i].confidence,
                    prof[i].attempts, prof[i].successes, None)] :
            order \in {o \in [1 .. k -> 1 .. n] :
                          \A a, b \in 1 .. k : a # b => o[a] # o[b]},
            prof \in [1 .. k -> ViewProfiles]} : k \in 0 .. n}

\* the subject filters tried: none, the empty string, a subject with topics
\* and one without
SubjectInputs == {None, Some(""), Some("Math"), Some("Physics")}

InitViews ==
    /\ topics \in ViewTopicTables
    /\ progress_records \in ViewLedgers(Len(topics))
    /\ skill_assessment_records = LogOf(progress_records, 1)
    /\ study_sessions = <<>>
    /\ sessions = <<>>
    /\ now = 0
    /\ last = NoRequest

\* GET /heatmap?subject=
GenerateSkillHeatmap ==
    \E subject \in SubjectInputs :
        /\ last' = [op |-> "generate_skill_heatmap", subject |-> subject,
                    response |-> generate_skill_heatmap(topics, progress_records, subject)]
        /\ UNCHANGED <<topics, progress_records, skill_assessment_records,
                       study_sessions, sessions, now>>

\* GET /topics/{topic_id}/mastery, also for an id without a topic
GetTopicMastery ==
    \E topic_id \in 1 .. Len(topics) + 1 :
        /\ last' = [op |-> "get_topic_mastery", topic_id |-> topic_id,
                    response |-> TopicMasteryResponse(
                        get_topic_mastery(topics, progress_records,
                                          skill_assessment_records, topic_id))]
        /\ UNCHANGED <<topics, progress_records, skill_assessment_records,
                       study_sessions, sessions, now>>

NextViews ==
    \/ GenerateSkillHeatmap
    \/ GetTopicMastery

SpecViews == InitViews /\ [][NextViews]_vars

---------------------------------------------------------------------------
(* Record states for the check of one manual update with any request body: *)
(* no record, or a record of topic 1 as the handlers above leave it, with  *)
(* study time and a perceived difficulty reported or not.                  *)

\* a record with five right answers, classified MASTERED and stamped
StampedProfile ==
    [level |-> MASTERED, confidence |-> 85, attempts |-> 5, successes |-> 5]

UpdateLedgers ==
    {<<>>} \cup
    {<<[Row(1, 1, prof.level, prof.confidence, prof.attempts, prof.successes,
            IF prof = StampedProfile THEN Some(0) ELSE None)
          EXCEPT !.time_spent_minutes = minutes,
                 !.perceived_difficulty = difficulty]>> :
        prof \in ViewProfiles \cup {StampedProfile},
        minutes \in 0 .. MaxMinutes,
        difficulty \in {None, Some(3)}}

\* the time_spent_minutes a ProgressUpdate body can carry: an optional
\* integer, of either sign
ProgressUpdateMinutes == {None, Some(-1), Some(0), Some(1)}

\* ProgressUpdate request bodies: every field absent or supplied, with the
\* falsy values 0.0 and 0 among the supplied ones
AnyProgressInputs ==
    {ProgressUpdate(t, level, confidence, minutes, difficulty) :
        t \in {1, 2},
        level \in {None, Some(NOT_STARTED), Some(MASTERED)},
        confidence \in {None, Some(0), Some(85)},
        minutes \in ProgressUpdateMinutes,
        difficulty \in {None, Some(5)}}

InitUpdate ==
    /\ topics = ScenarioTopics
    /\ progress_records \in UpdateLedgers
    /\ skill_assessment_records = LogOf(progress_records, 1)
    /\ study_sessions = <<>>
    /\ sessions = <<>>
    /\ now = 0
    /\ last = NoRequest

\* POST /update-progress with any request body, once on each drawn state
UpdateProgress ==
    \E progress \in AnyProgressInputs, t \in Ticks :
        LET out == update_topic_progress(progress_records, skill_assessment_records,
                                         progress, t)
        IN  /\ last = NoRequest
            /\ progress_records' = out.rows
            /\ skill_assessment_records' = out.log
            /\ now' = t
            /\ last' = [op |-> "update_topic_progress", request |-> progress,
                        raised |-> out.raised,
                        level_before |-> LevelOf(progress.topic_id)]
            /\ UNCHANGED <<topics, study_sessions, sessions>>

NextUpdate == UpdateProgress

SpecUpdate == InitUpdate /\ [][NextUpdate]_vars

---------------------------------------------------------------------------
(* Requests in flight together.  A writing handler awaits twice: at its    *)
(* select and at its commit.  Between the two it works on the objects of   *)
(* its own session; other requests run at the awaits.  The engine is       *)
(* created without an isolation level and the select takes no lock, so a   *)
(* commit writes over whatever was committed since the select.             *)

\* lines 139-178 of record_skill_assessment at time t: the select, and the
\* work on the session's objects up to the commit
record_skill_assessment_in_session(rows, assessment, t) ==
    LET found == RecordsOf(rows, assessment.topic_id)
        progress_record == IF found = <<>> THEN NewProgressRecord(assessment.topic_id)
                           ELSE found[1]
    IN  IF Len(found) > 1 THEN [raised |-> Some("MultipleResultsFound")]
        ELSE IF IsNone(progress_record, "total_attempts")
        THEN [raised |-> Some("TypeError")]
        ELSE [raised |-> None,
              loaded |-> progress_record,
              object |-> _update_mastery_level(
                             UpdateProgressMetrics(progress_record, assessment, t), t),
              added |-> Some([progress_record_id |-> progress_record.id,
                              is_correct |-> assessment.is_correct])]

\* lines 184-211 of update_topic_progress at time t
update_topic_progress_in_session(rows, progress, t) ==
    LET found == RecordsOf(rows, progress.topic_id)
        progress_record == IF found = <<>> THEN NewProgressRecord(progress.topic_id)
                           ELSE found[1]
        with_confidence == SetConfidenceScore(SetMasteryLevel(progress_record, progress),
                                              progress)
    IN  IF Len(found) > 1 THEN [raised |-> Some("MultipleResultsFound")]
        ELSE IF AddsTime(progress) /\ IsNone(with_confidence, "time_spent_minutes")
        THEN [raised |-> Some("TypeError")]
        ELSE [raised |-> None,
              loaded |-> progress_record,
              object |-> SetAttr(SetPerceivedDifficulty(
                                     AddTimeSpent(with_confidence, progress), progress),
                                 "last_practice_at", Some(t)),
              added |-> None]

\* the attributes the session changed on an object it loaded
ChangedAttributes(loaded, object) ==
    {n \in DOMAIN object : n \notin DOMAIN loaded \/ object[n] # loaded[n]}

\* the flush without the UPDATE of a loaded object
FlushObject_inserts_only(rows, loaded, object) ==
    IF "id" \in DOMAIN object THEN rows ELSE Flush(rows, object)

\* the flush of the session's progress record: an INSERT of a new object,
\* else an UPDATE that sets the changed attributes on the row as it is now
FlushObject(rows, loaded, object) ==
    IF "id" \in DOMAIN object
    THEN [rows EXCEPT ![object.id] =
             [n \in DOMAIN @ |->
                 IF n \in ChangedAttributes(loaded, object) THEN object[n] ELSE @[n]]]
    ELSE Flush(rows, object)

\* an INSERT that writes over the newest assessment record
FlushAdded_overwrites(log, added) ==
    IF added = None THEN log
    ELSE IF log = <<>>
    THEN <<[id |-> 1, progress_record_id |-> added[1].progress_record_id,
            is_correct |-> added[1].is_correct]>>
    ELSE [log EXCEPT ![Len(log)] =
             [id |-> Len(log), progress_record_id |-> added[1].progress_record_id,
              is_correct |-> added[1].is_correct]]

\* the INSERT of the session's assessment record, if it added one
FlushAdded(log, added) ==
    IF added = None THEN log
    ELSE Append(log, [id |-> Len(log) + 1,
                      progress_record_id |-> added[1].progress_record_id,
                      is_correct |-> added[1].is_correct])

\* await self.db.commit(): both writes in one transaction
commit(rows, log, session) ==
    Committed(FlushObject(rows, session.loaded, session.object),
              FlushAdded(log, session.added))

\* a failed commit that leaves the flushed assessment record behind
rollback_keeps_added(rows, log, session) ==
    Raised("OperationalError", rows, FlushAdded(log, session.added))

\* a commit the storage refuses: get_async_session rolls the session back
\* and raises the error again
rollback(rows, log, session) == Raised("OperationalError", rows, log)

\* the session's row changed, or its pair got a record, since its select
Stale(rows, session) ==
    IF "id" \in DOMAIN session.loaded
    THEN rows[session.loaded.id] # session.loaded
    ELSE RecordsOf(rows, session.loaded.topic_id) # <<>>

\* two clients, whose requests may be in flight together
Clients == {"c1", "c2"}

RECURSIVE Sum(_, _)
\* the sum of f over the set S
Sum(f, S) ==
    IF S = {} THEN 0
    ELSE LET x == CHOOSE y \in S : TRUE IN f[x] + Sum(f, S \ {x})

\* the requests the clients have sent
Served == Sum([p \in Clients |-> sessions[p].served], Clients)

\* a client between requests, with the requests it has sent and whether a
\* commit of its wrote over a stale read
Idle(served, raced) == [pc |-> "idle", served |-> served, raced |-> raced]

\* ProgressUpdate request bodies of the clients: an empty update and a
\* confidence report on topic 1
SessionProgressInputs ==
    {ProgressUpdate(1, None, None, None, None),
     ProgressUpdate(1, None, Some(85), None, None)}

InitSessions ==
    /\ topics = ScenarioTopics
    /\ progress_records = <<>>
    /\ skill_assessment_records = <<>>
    /\ study_sessions = <<>>
    /\ sessions = [p \in Clients |-> Idle(0, FALSE)]
    /\ now = 0
    /\ last = NoRequest

\* what a request of client p became after its select and its work in the
\* session: over when it raised, else in flight until its commit
Begun(p, op, request, work) ==
    /\ sessions' =
           [sessions EXCEPT ![p] =
               IF work.raised # None THEN Idle(@.served + 1, @.raced)
               ELSE [pc |-> "dirty", served |-> @.served + 1, raced |-> @.raced,
                     op |-> op, request |-> request, loaded |-> work.loaded,
                     object |-> work.object, added |-> work.added]]
    /\ last' = [op |-> op, step |-> "select", client |-> p, raised |-> work.raised]

\* POST /assess-skill up to its commit
BeginRecordSkillAssessment(p) ==
    \E assessment \in AssessmentInputs, t \in Ticks :
        /\ sessions[p].pc = "idle"
        /\ Served < MaxRequests
        /\ Begun(p, "record_skill_assessment", assessment,
                 record_skill_assessment_in_session(progress_records, assessment, t))
        /\ now' = t
        /\ UNCHANGED <<topics, progress_records, skill_assessment_records,
                       study_sessions>>

\* POST /update-progress up to its commit
BeginUpdateTopicProgress(p) ==
    \E progress \in SessionProgressInputs, t \in Ticks :
        /\ sessions[p].pc = "idle"
        /\ Served < MaxRequests
        /\ Begun(p, "update_topic_progress", progress,
                 update_topic_progress_in_session(progress_records, progress, t))
        /\ now' = t
        /\ UNCHANGED <<topics, progress_records, skill_assessment_records,
                       study_sessions>>

\* the end of a request of client p: out is what its commit did
Ended(p, step, out) ==
    /\ progress_records' = out.rows
    /\ skill_assessment_records' = out.log
    /\ sessions' =
           [sessions EXCEPT ![p] =
               Idle(@.served,
                    @.raced \/ (out.raised = None /\ Stale(progress_records, @)))]
    /\ last' = [op |-> sessions[p].op, step |-> step, client |-> p,
                raised |-> out.raised]
    /\ UNCHANGED <<topics, study_sessions, now>>

\* the commit of the request of client p
Commit(p) ==
    /\ sessions[p].pc = "dirty"
    /\ Ended(p, "commit",
             commit(progress_records, skill_assessment_records, sessions[p]))

\* the commit of the request of client p fails in the storage
CommitFails(p) ==
    /\ sessions[p].pc = "dirty"
    /\ Ended(p, "commit",
             rollback(progress_records, skill_assessment_records, sessions[p]))

NextSessions ==
    \E p \in Clients :
        \/ BeginRecordSkillAssessment(p)
        \/ BeginUpdateTopicProgress(p)
        \/ Commit(p)
        \/ CommitFails(p)

SpecSessions == InitSessions /\ [][NextSessions]_vars

---------------------------------------------------------------------------
(* Record states for the check of one assessment with any request body,    *)
(* also a malformed one.  The request body is parsed by the SkillAssessment *)
(* schema before the handler runs.                                         *)

\* the SkillAssessment schema accepts a body: its score lies in
\* [0, max_score]
SkillAssessmentAccepts(assessment) ==
    0 <= assessment.score /\ assessment.score <= assessment.max_score

\* POST /assess-skill at time t: the body is validated, then recorded
assess_skill(rows, log, assessment, t) ==
    IF ~SkillAssessmentAccepts(assessment)
    THEN Raised("ValidationError", rows, log)
    ELSE record_skill_assessment(rows, log, assessment, t)

\* SkillAssessment request bodies: topic 1 or a topic_id without a topic,
\* a right or a wrong answer, and a score below, in or above [0, max_score]
AnyAssessmentInputs ==
    [topic_id : {1, Len(ScenarioTopics) + 1},
     is_correct : {Some(TRUE), Some(FALSE)},
     score : -1 .. 2,
     max_score : {1}]

InitAssess ==
    /\ topics = ScenarioTopics
    /\ progress_records \in UpdateLedgers
    /\ skill_assessment_records = LogOf(progress_records, 1)
    /\ study_sessions = <<>>
    /\ sessions = <<>>
    /\ now = 0
    /\ last = NoRequest

\* POST /assess-skill with any request body, once on each drawn state
AssessSkill ==
    \E assessment \in AnyAssessmentInputs, t \in Ticks :
        LET out == assess_skill(progress_records, skill_assessment_records,
                                assessment, t)
        IN  /\ last = NoRequest
            /\ progress_records' = out.rows
            /\ skill_assessment_records' = out.log
            /\ now' = t
            /\ last' = [op |-> "record_skill_assessment", request |-> assessment,
                        raised |-> out.raised,
                        level_before |-> LevelOf(assessment.topic_id)]
            /\ UNCHANGED <<topics, study_sessions, sessions>>

NextAssess == AssessSkill

SpecAssess == InitAssess /\ [][NextAssess]_vars

---------------------------------------------------------------------------
(* The streak walk in flight.  calculate_study_streak reads date.today()   *)
(* once and then awaits one query per day; study sessions recorded by      *)
(* other requests at those awaits are seen by the later queries.           *)

\* no streak request in flight
NoWalk == [pc |-> "idle"]

\* lines 390-392: the walk before its first query, with the sessions there
\* were when it began
BegunWalk(rows, t) ==
    [pc |-> "walking", current_date |-> DateOf(t), i |-> 0, streak_days |-> 0,
     longest_streak |-> 0, started_with |-> rows]

\* an iteration that goes on over inactive days, to the oldest session
StreakStep_skips_gaps(rows, walk) ==
    LET check_date == walk.current_date - walk.i
        counted == [walk EXCEPT !.i = @ + 1, !.streak_days = @ + 1,
                                !.longest_streak = Max(@, walk.streak_days + 1)]
        over(w) == IF w.i >= LookbackDays THEN [w EXCEPT !.pc = "done"] ELSE w
    IN  IF HasActivity(rows, check_date) THEN over(counted)
        ELSE IF walk.i = 0 THEN [walk EXCEPT !.pc = "done"]
        ELSE IF \A k \in DOMAIN rows : DateOf(rows[k].start_time) > check_date
        THEN [walk EXCEPT !.pc = "done"]
        ELSE over([walk EXCEPT !.i = @ + 1])

\* one iteration of the loop of calculate_study_streak: the query of day
\* current_date - i against the sessions as they are now, then the count
\* or the break
StreakStep(rows, walk) ==
    LET check_date == walk.current_date - walk.i
        counted == [walk EXCEPT !.i = @ + 1, !.streak_days = @ + 1,
                                !.longest_streak = Max(@, walk.streak_days + 1)]
        over(w) == IF w.i >= LookbackDays THEN [w EXCEPT !.pc = "done"] ELSE w
    IN  IF HasActivity(rows, check_date) THEN over(counted)
        ELSE IF walk.i = 0 THEN [walk EXCEPT !.pc = "done"]
        ELSE IF walk.streak_days > 0 THEN [walk EXCEPT !.pc = "done"]
        ELSE over([walk EXCEPT !.i = @ + 1])

\* lines 418-422: the response of a finished walk
StreakResponse(walk) ==
    [current_streak |-> walk.streak_days,
     longest_streak |-> walk.longest_streak,
     streak_maintained |-> walk.streak_days > 0]

\* the start_time of a session recorded while a walk may be in flight:
\* today, yesterday or the day before
WalkStartTimes == {now - d * TicksPerDay : d \in 0 .. 2}

InitWalk ==
    /\ topics = ScenarioTopics
    /\ progress_records = <<>>
    /\ skill_assessment_records = <<>>
    /\ study_sessions = <<>>
    /\ sessions = NoWalk
    /\ now = MaxDay * TicksPerDay
    /\ last = NoRequest

\* POST /study-sessions, at any await of a walk or between walks
AppendStudySession ==
    \E start_time \in WalkStartTimes :
        /\ Len(study_sessions) < MaxSessions
        /\ study_sessions' = record_study_session(study_sessions,
                                                  [start_time |-> start_time])
        /\ last' = [op |-> "record_study_session"]
        /\ UNCHANGED <<topics, progress_records, skill_assessment_records, sessions,
                       now>>

\* GET /streak up to its first query
BeginStreakWalk ==
    /\ sessions.pc = "idle"
    /\ sessions' = BegunWalk(study_sessions, now)
    /\ last' = [op |-> "calculate_study_streak", step |-> "begin"]
    /\ UNCHANGED <<topics, progress_records, skill_assessment_records,
                   study_sessions, now>>

\* one query of a walk in flight and, when the loop is left, the response
WalkDay ==
    /\ sessions.pc = "walking"
    /\ LET walk == StreakStep(study_sessions, sessions)
       IN  IF walk.pc = "done"
           THEN /\ sessions' = NoWalk
                /\ last' = [op |-> "calculate_study_streak", step |-> "return",
                            response |-> StreakResponse(walk),
                            current_date |-> walk.current_date,
                            started_with |-> walk.started_with]
           ELSE /\ sessions' = walk
                /\ last' = [op |-> "calculate_study_streak", step |-> "query"]
    /\ UNCHANGED <<topics, progress_records, skill_assessment_records,
                   study_sessions, now>>

NextWalk ==
    \/ AppendStudySession
    \/ BeginStreakWalk
    \/ WalkDay

SpecWalk == InitWalk /\ [][NextWalk]_vars

---------------------------------------------------------------------------
(* Claims about the Mastery Ledger, checked under Spec *)

\* classify as the specification states it
ClaimClassify(attempts, rate, confidence) ==
    IF attempts >= 5 /\ RateGE(rate, 9) /\ confidence >= 80 THEN MASTERED
    ELSE IF attempts >= 3 /\ RateGE(rate, 7) THEN PRACTICING
    ELSE IF attempts >= 1 THEN LEARNING
    ELSE NOT_STARTED

Classified(r) ==
    r.mastery_level = ClaimClassify(r.total_attempts, r.success_rate, r.confidence_score)

\* the last request was op and it committed
CommittedRequest(op) == last.op = op /\ last.raised = None

\* the record the last request addressed
Addressed == RecordsOf(progress_records, last.request.topic_id)[1]

\* C1: after every committed record_skill_assessment the addressed record's
\* mastery_level is classify of its updated attempts, success rate and
\* confidence, whatever the level was before; 5 of 5 right with confidence
\* 0.85 is MASTERED and 1 of 2 right is LEARNING.
C1_AssessmentClassifies ==
    CommittedRequest("record_skill_assessment") =>
        /\ Classified(Addressed)
        /\ (Addressed.total_attempts = 5 /\ Addressed.successful_attempts = 5
                /\ Addressed.confidence_score = 85
             => Addressed.mastery_level = MASTERED)
        /\ (Addressed.total_attempts = 2 /\ Addressed.successful_attempts = 1
             => Addressed.mastery_level = LEARNING)

\* an assessment of a record that a manual override had put at MASTERED
\* brings it to LEARNING with 1 of 2 right
C1_Witness ==
    /\ CommittedRequest("record_skill_assessment")
    /\ last.level_before = Some(MASTERED)
    /\ Addressed.total_attempts = 2
    /\ Addressed.successful_attempts = 1
    /\ Addressed.mastery_level = LEARNING

\* total_attempts of the record of topic t in rows, 0 without a record
AttemptsOf(rows, t) ==
    LET found == RecordsOf(rows, t)
    IN  IF found = <<>> THEN 0 ELSE found[1].total_attempts

\* C2: in every reachable state success_rate is successful_attempts /
\* total_attempts (0 with no attempts) and successful_attempts <=
\* total_attempts, and every committed assessment raises total_attempts of
\* its record by exactly one.
C2_RateAndCounters ==
    /\ [](\A i \in DOMAIN progress_records :
            LET r == progress_records[i]
            IN  /\ r.successful_attempts <= r.total_attempts
                /\ RateEq(r.success_rate,
                          IF r.total_attempts = 0 THEN ZeroRate
                          ELSE Rate(r.successful_attempts, r.total_attempts)))
    /\ [][(last'.op = "record_skill_assessment" /\ last'.raised = None) =>
             AttemptsOf(progress_records', last'.request.topic_id)
                 = AttemptsOf(progress_records, last'.request.topic_id) + 1]_vars

\* a manual update of a record with 2 of 3 right
C2_Witness ==
    /\ CommittedRequest("update_topic_progress")
    /\ Addressed.total_attempts = 3
    /\ Addressed.successful_attempts = 2
    /\ Addressed.success_rate = Rate(2, 3)

\* C3 as stated: after every committed update_topic_progress without a
\* mastery_level override the record's mastery_level is classify of its
\* updated values.
C3_ManualUpdateClassifies ==
    (CommittedRequest("update_topic_progress") /\ last.request.mastery_level = None)
        => Classified(Addressed)

\* C3 as amended: a committed update_topic_progress without a mastery_level
\* override leaves mastery_level as it found it (NOT_STARTED on the record
\* it creates); the level is classified again only by the next assessment.
C3_ManualUpdateKeepsLevel ==
    (CommittedRequest("update_topic_progress") /\ last.request.mastery_level = None)
        => Addressed.mastery_level =
               IF last.level_before = None THEN NOT_STARTED ELSE last.level_before[1]

\* 5 of 5 right, then confidence raised to 0.85 by a manual update: the
\* record is still PRACTICING
C3_Witness ==
    /\ CommittedRequest("update_topic_progress")
    /\ last.request.mastery_level = None
    /\ last.request.confidence_score = Some(85)
    /\ Addressed.total_attempts = 5
    /\ Addressed.successful_attempts = 5
    /\ Addressed.confidence_score = 85
    /\ Addressed.mastery_level = PRACTICING

\* C4: once mastery_achieved_at of a record is set, no step changes or
\* clears it.
C4_AchievedAtKept ==
    [][\A i \in DOMAIN progress_records :
          progress_records[i].mastery_achieved_at # None =>
              /\ i \in DOMAIN progress_records'
              /\ progress_records'[i].mastery_achieved_at
                     = progress_records[i].mastery_achieved_at]_vars

\* a record stamped at time 0, overridden to LEARNING, and classified
\* MASTERED again by an assessment at time 1 with its stamp still 0
C4_Witness ==
    /\ CommittedRequest("record_skill_assessment")
    /\ last.level_before = Some(LEARNING)
    /\ Addressed.mastery_level = MASTERED
    /\ Addressed.last_practice_at = Some(1)
    /\ Addressed.mastery_achieved_at = Some(0)

\* C5: in every reachable state a record at MASTERED has
\* mastery_achieved_at set, however it entered MASTERED.
C5_MasteredIsStamped ==
    \A i \in DOMAIN progress_records :
        progress_records[i].mastery_level = MASTERED
            => progress_records[i].mastery_achieved_at # None

---------------------------------------------------------------------------
(* Claims about the classification alone, checked under SpecClassify *)

\* C6: a second run of _update_mastery_level on a record, with nothing
\* changed in between, leaves the record as the first run left it, and two
\* classified records with equal total_attempts, success_rate and
\* confidence_score have the same level.
C6_ClassificationIdempotent ==
    /\ [](\A i, j \in DOMAIN progress_records :
            LET a == progress_records[i]
                b == progress_records[j]
            IN  (/\ last.runs[i] >= 1 /\ last.runs[j] >= 1
                 /\ a.total_attempts = b.total_attempts
                 /\ RateEq(a.success_rate, b.success_rate)
                 /\ a.confidence_score = b.confidence_score)
                => a.mastery_level = b.mastery_level)
    /\ [][\A i \in DOMAIN progress_records :
            (last.runs[i] >= 1 /\ last'.runs[i] = last.runs[i] + 1)
                => progress_records'[i] = progress_records[i]]_vars

\* record 1 classified twice and record 2 once: both MASTERED, record 1
\* stamped by its first run at time 0 and record 2 at time 1
C6_Witness ==
    /\ last.runs[1] = 2
    /\ last.runs[2] = 1
    /\ progress_records[1].mastery_level = MASTERED
    /\ progress_records[2].mastery_level = MASTERED
    /\ progress_records[1].mastery_achieved_at = Some(0)
    /\ progress_records[2].mastery_achieved_at = Some(1)

---------------------------------------------------------------------------
(* Claims about the resolver and the recommendations *)

\* the topic ids at MASTERED in the ledger
MasteredTopicIds ==
    {progress_records[i].topic_id :
        i \in {j \in DOMAIN progress_records :
                  progress_records[j].mastery_level = MASTERED}}

\* the prerequisite ids of a topic, none when the list is empty or absent
PrerequisiteIds(topic) ==
    IF topic.prerequisites = None THEN {}
    ELSE {topic.prerequisites[1][k] : k \in DOMAIN topic.prerequisites[1]}

\* the topic ids a list of topics or of entries names
IdsOf(seq) == {seq[k].id : k \in DOMAIN seq}

ReadyIds == IdsOf(_find_topics_ready_for_learning(topics, progress_records))

EntriesOfType(response, type) == {k \in DOMAIN response : response[k].type = type}

\* C9 (SpecReads): for every limit >= 0 generate_recommendations returns at
\* most limit entries, and every review entry precedes every new_topic
\* entry.
C9_LengthAndOrder ==
    (last.op = "generate_recommendations" /\ last.limit >= 0) =>
        /\ Len(last.response) <= last.limit
        /\ \A i \in EntriesOfType(last.response, "review"),
              j \in EntriesOfType(last.response, "new_topic") : i < j

\* a response filled to its limit with a review entry and a new_topic
\* entry while more struggling records or ready topics were there
C9_Witness ==
    /\ last.op = "generate_recommendations"
    /\ last.limit = 2
    /\ Len(last.response) = 2
    /\ last.response[1].type = "review"
    /\ last.response[2].type = "new_topic"
    /\ Cardinality(ReadyIds) = 2

\* the number of review entries, of new_topic entries and of ready topics
ReviewCount == Cardinality(EntriesOfType(last.response, "review"))
NewTopicCount == Cardinality(EntriesOfType(last.response, "new_topic"))
EligibleCount == Len(_find_topics_ready_for_learning(topics, progress_records))
Min(a, b) == IF a <= b THEN a ELSE b

\* the statement of C10 about one response
SlotsFilled ==
    /\ last.limit - ReviewCount >= 0
    /\ NewTopicCount = Min(last.limit - ReviewCount, EligibleCount)
    /\ (ReviewCount >= last.limit => NewTopicCount = 0)

\* C10 as stated (SpecReads): the number of new_topic entries is
\* min(limit - review_count, eligible topics), limit - review_count is never
\* negative, and no new_topic entry is emitted when the review entries fill
\* the limit.
C10_RemainingSlots ==
    last.op = "generate_recommendations" => SlotsFilled

\* C10 as amended: the same for every limit >= 0.
C10_RemainingSlotsOfValidLimit ==
    (last.op = "generate_recommendations" /\ last.limit >= 0) => SlotsFilled

\* one review entry fills a limit of 1 and no ready topic is recommended
C10_Witness ==
    /\ last.op = "generate_recommendations"
    /\ last.limit = 1
    /\ ReviewCount = 1
    /\ EligibleCount >= 1
    /\ NewTopicCount = 0

\* the progress records the claim calls struggling, in ledger order
StrugglingRecords ==
    SelectSeq(progress_records, LAMBDA record :
        RateLT(record.success_rate, 7) \/ record.confidence_score < 60)

\* the review part of the last response
ReviewPart == SelectSeq(last.response, LAMBDA entry : entry.type = "review")

\* the review part is made of the first n struggling records, in ledger
\* order, each "high" iff its success rate is below 0.5
ReviewsOfFirst(n) ==
    ReviewPart =
        [k \in 1 .. n |->
            [type |-> "review",
             priority |-> IF RateLT(StrugglingRecords[k].success_rate, 5)
                          THEN "high" ELSE "medium",
             topic_id |-> StrugglingRecords[k].topic_id]]

\* the statement of C23 about one response: up to limit struggling records
ReviewsUpToLimit ==
    ReviewsOfFirst(Min(IF last.limit >= 0 THEN last.limit ELSE 0,
                       Len(StrugglingRecords)))

C29_NoTopicTwice ==
    last.op = "generate_recommendations" =>
        \A i, j \in DOMAIN last.response :
            i # j => last.response[i].topic_id # last.response[j].topic_id

---------------------------------------------------------------------------
(* Claims about the Streak Calculator, checked under SpecStreak *)

\* the day of the last call of calculate_study_streak
Today == DateOf(now)

\* C11: with a study session on each of the days D-2 and D-1 (and none on
\* D-3) and no session on D, today, calculate_study_streak returns
\* current_streak = 2: an inactive today does not break the streak of the
\* days before.
C11_InactiveTodayKeepsStreak ==
    (/\ last.op = "calculate_study_streak"
     /\ ~HasActivity(study_sessions, Today)
     /\ HasActivity(study_sessions, Today - 1)
     /\ HasActivity(study_sessions, Today - 2)
     /\ ~HasActivity(study_sessions, Today - 3))
        => last.response.current_streak = 2

\* the number of consecutive active days counting backward from today
ActiveRun ==
    CHOOSE k \in 0 .. Len(study_sessions) :
        /\ \A j \in 0 .. k - 1 : HasActivity(study_sessions, Today - j)
        /\ ~HasActivity(study_sessions, Today - k)

\* C24: when today has a study session, current_streak is the number
\* k >= 1 of consecutive days, counting backward from today, that each have
\* a session starting on them, capped by the lookback of 365 days: days
\* before the first inactive day do not count.
C24_StreakFromToday ==
    (last.op = "calculate_study_streak" /\ HasActivity(study_sessions, Today)) =>
        /\ last.response.current_streak >= 1
        /\ last.response.current_streak = Min(ActiveRun, LookbackDays)

\* sessions today, yesterday and three days ago, none two days ago: the
\* streak is 2
C24_Witness ==
    /\ last.op = "calculate_study_streak"
    /\ HasActivity(study_sessions, Today)
    /\ HasActivity(study_sessions, Today - 1)
    /\ ~HasActivity(study_sessions, Today - 2)
    /\ HasActivity(study_sessions, Today - 3)
    /\ last.response.current_streak = 2

\* C25: for every session history calculate_study_streak returns
\* longest_streak equal to current_streak, also when a strictly longer run
\* of consecutive active days lies earlier in the lookback window.
C25_LongestIsCurrent ==
    last.op = "calculate_study_streak" =>
        last.response.longest_streak = last.response.current_streak

\* a session today, none yesterday, sessions on the two days before: the
\* earlier run of 2 is longer than the current streak of 1, and
\* longest_streak is 1
C25_Witness ==
    /\ last.op = "calculate_study_streak"
    /\ HasActivity(study_sessions, Today)
    /\ ~HasActivity(study_sessions, Today - 1)
    /\ HasActivity(study_sessions, Today - 2)
    /\ HasActivity(study_sessions, Today - 3)
    /\ last.response.current_streak = 1
    /\ last.response.longest_streak = 1

---------------------------------------------------------------------------
(* Claims about the views, checked under SpecViews *)

\* the summary of the last heatmap
Summary == last.response.summary


\* the records the subject filter of the last heatmap request matches
MatchingRecords ==
    {i \in DOMAIN progress_records :
        \E k \in DOMAIN topics :
            /\ topics[k].id = progress_records[i].topic_id
            /\ (last.subject \in {None, Some("")} \/ topics[k].subject = last.subject)}

\* the matching records at one of the levels
MatchingAt(levels) ==
    {i \in MatchingRecords : progress_records[i].mastery_level \in levels}

\* the subject name and title under which record i is shown
CellKey(i) ==
    LET topic == TopicOf(topics, progress_records[i].topic_id)[1]
    IN  <<SubjectName(topic), topic.title>>

\* C12: for any progress records and topics the heatmap summary satisfies
\* mastered_topics + in_progress_topics <= total_topics; in_progress_topics
\* counts no more than the records at LEARNING or PRACTICING, and exactly
\* those when no two records are shown under the same subject and title.
C12_SummaryCounts ==
    last.op = "generate_skill_heatmap" =>
        /\ Summary.mastered_topics + Summary.in_progress_topics <= Summary.total_topics
        /\ Summary.in_progress_topics <= Cardinality(MatchingAt({LEARNING, PRACTICING}))
        /\ (\A i, j \in MatchingRecords : i # j => CellKey(i) # CellKey(j)) =>
               /\ Summary.total_topics = Cardinality(MatchingRecords)
               /\ Summary.mastered_topics = Cardinality(MatchingAt({MASTERED}))
               /\ Summary.in_progress_topics
                      = Cardinality(MatchingAt({LEARNING, PRACTICING}))

\* a heatmap of one mastered topic and one topic in progress
C12_Witness ==
    /\ last.op = "generate_skill_heatmap"
    /\ Summary.mastered_topics = 1
    /\ Summary.in_progress_topics = 1
    /\ Summary.total_topics = 2

\* C13: with no progress record, or none of a topic of the subject asked
\* for, generate_skill_heatmap returns an empty heatmap list and a summary
\* of three zeros.
C13_EmptyHeatmap ==
    (last.op = "generate_skill_heatmap" /\ MatchingRecords = {}) =>
        /\ last.response.heatmap = <<>>
        /\ Summary.total_topics = 0
        /\ Summary.mastered_topics = 0
        /\ Summary.in_progress_topics = 0

\* a learner with a mastered topic asks for a subject none of the records
\* belongs to
C13_Witness ==
    /\ last.op = "generate_skill_heatmap"
    /\ last.subject = Some("Physics")
    /\ \E i \in DOMAIN progress_records : progress_records[i].mastery_level = MASTERED
    /\ last.response.heatmap = <<>>
    /\ Summary.total_topics = 0

\* C20: for a topic without a progress record get_topic_mastery answers
\* not found (404), never a default record; for a topic whose record is at
\* NOT_STARTED it answers the detail view with mastery_level "not_started".
C20_NoRecordIsNotFound ==
    last.op = "get_topic_mastery" =>
        LET found == RecordsOf(progress_records, last.topic_id)
        IN  /\ found = <<>> => last.response = [status |-> 404]
            /\ (found # <<>> /\ found[1].mastery_level = NOT_STARTED) =>
                   /\ last.response.status = 200
                   /\ last.response.body.topic.id = last.topic_id
                   /\ last.response.body.progress.mastery_level = "not_started"
                   /\ last.response.body.progress.total_attempts = 0

\* topic 1 has a record at NOT_STARTED and is answered with the detail
\* view, while topic 2 exists and has no record
C20_Witness ==
    /\ last.op = "get_topic_mastery"
    /\ last.topic_id = 1
    /\ Len(topics) = 2
    /\ RecordsOf(progress_records, 2) = <<>>
    /\ last.response.status = 200
    /\ last.response.body.progress.mastery_level = NOT_STARTED

\* record i is shown: its cell is a topic entry of the group of its subject
Shown(i) ==
    LET topic == TopicOf(topics, progress_records[i].topic_id)[1]
        heatmap == last.response.heatmap
    IN  \E g \in DOMAIN heatmap :
            /\ heatmap[g].subject = SubjectName(topic)
            /\ \E c \in DOMAIN heatmap[g].topics :
                   heatmap[g].topics[c] = HeatmapCell(topic, progress_records[i])

\* C26: total_topics is the number of the progress records the subject
\* filter matches, and every such record is shown as a topic entry in the
\* group of its topic's subject ("General" without one), also when two
\* topics of one subject have the same title.
C26_EveryRecordShown ==
    last.op = "generate_skill_heatmap" =>
        /\ Summary.total_topics = Cardinality(MatchingRecords)
        /\ \A i \in MatchingRecords : Shown(i)

---------------------------------------------------------------------------
(* Claims about the writing handlers *)

\* the value a request field supplies, or the stored one when it is absent
Supplied(field, stored) == IF field = None THEN stored ELSE field[1]

\* C14 (SpecUpdate): update_topic_progress on a pair that has a record
\* commits and is a
\* partial update: mastery_level, confidence_score (0.0 too) and
\* perceived_difficulty take the supplied value and keep the stored one
\* when absent; supplied minutes are added to time_spent_minutes;
\* last_practice_at is the time of the call; total_attempts,
\* successful_attempts, success_rate and mastery_achieved_at are as they
\* were, and so are every other record and the assessment log.
C14_PartialUpdate ==
    [][(last'.op = "update_topic_progress"
          /\ RecordsOf(progress_records, last'.request.topic_id) # <<>>) =>
         LET request == last'.request
             old == RecordsOf(progress_records, request.topic_id)[1]
             new == progress_records'[old.id]
         IN  /\ last'.raised = None
             /\ Len(progress_records') = Len(progress_records)
             /\ \A i \in DOMAIN progress_records :
                    i # old.id => progress_records'[i] = progress_records[i]
             /\ skill_assessment_records' = skill_assessment_records
             /\ new.id = old.id /\ new.topic_id = old.topic_id
             /\ new.mastery_level = Supplied(request.mastery_level, old.mastery_level)
             /\ new.confidence_score
                    = Supplied(request.confidence_score, old.confidence_score)
             /\ new.perceived_difficulty
                    = IF request.perceived_difficulty = None
                      THEN old.perceived_difficulty ELSE request.perceived_difficulty
             /\ new.time_spent_minutes
                    = old.time_spent_minutes + Supplied(request.time_spent_minutes, 0)
             /\ new.last_practice_at = Some(now')
             /\ new.total_attempts = old.total_attempts
             /\ new.successful_attempts = old.successful_attempts
             /\ new.success_rate = old.success_rate
             /\ new.mastery_achieved_at = old.mastery_achieved_at]_vars

\* a report of one more minute, of confidence 0.0 and of a new difficulty
\* on a stamped record with one minute stored: two minutes, confidence 0.0,
\* and the level, the counters and the stamp as they were
C14_Witness ==
    /\ CommittedRequest("update_topic_progress")
    /\ last.request.mastery_level = None
    /\ last.request.confidence_score = Some(0)
    /\ last.request.time_spent_minutes = Some(1)
    /\ last.request.perceived_difficulty = Some(5)
    /\ Addressed.time_spent_minutes = 2
    /\ Addressed.confidence_score = 0
    /\ Addressed.perceived_difficulty = Some(5)
    /\ Addressed.mastery_level = MASTERED
    /\ Addressed.total_attempts = 5
    /\ Addressed.mastery_achieved_at = Some(0)

\* C15 (Spec): the first operation on a pair creates its record and does
\* not fail: after record_skill_assessment on a pair without a record the
\* record exists with total_attempts = 1, successful_attempts = 1 iff the
\* answer was right, at LEARNING; after update_topic_progress on a pair
\* without a record the record exists with total_attempts = 0 and
\* time_spent_minutes the supplied minutes (0 if none).
C15_LazyCreation ==
    (last.op \in {"record_skill_assessment", "update_topic_progress"}
        /\ last.level_before = None) =>
        /\ last.raised = None
        /\ RecordsOf(progress_records, last.request.topic_id) # <<>>
        /\ last.op = "record_skill_assessment" =>
               /\ Addressed.total_attempts = 1
               /\ Addressed.successful_attempts
                      = (IF last.request.is_correct = Some(TRUE) THEN 1 ELSE 0)
               /\ Addressed.mastery_level = LEARNING
        /\ last.op = "update_topic_progress" =>
               /\ Addressed.total_attempts = 0
               /\ Addressed.time_spent_minutes
                      = Supplied(last.request.time_spent_minutes, 0)

\* the assessment records of progress record i whose answer is in answers
AssessmentsOfRecord(i, answers) ==
    {k \in DOMAIN skill_assessment_records :
        /\ skill_assessment_records[k].progress_record_id = i
        /\ skill_assessment_records[k].is_correct \in answers}

\* every assessment record names an existing progress record, and every
\* record's counters are the numbers of its assessment records
CountersMatchLog ==
    /\ \A k \in DOMAIN skill_assessment_records :
           skill_assessment_records[k].progress_record_id \in DOMAIN progress_records
    /\ \A i \in DOMAIN progress_records :
           /\ progress_records[i].total_attempts
                  = Cardinality(AssessmentsOfRecord(i, {None, Some(TRUE), Some(FALSE)}))
           /\ progress_records[i].successful_attempts
                  = Cardinality(AssessmentsOfRecord(i, {Some(TRUE)}))

\* the first assessment of a pair has created the record and is counted
FirstAssessmentCounted ==
    (last.op = "record_skill_assessment" /\ last.level_before = None) =>
        /\ last.raised = None
        /\ RecordsOf(progress_records, last.request.topic_id) # <<>>
        /\ Addressed.total_attempts = 1
        /\ Cardinality(AssessmentsOfRecord(Addressed.id,
                                           {None, Some(TRUE), Some(FALSE)})) = 1

\* C22 (Spec): every assessment record belongs to exactly one existing
\* progress record, every record's total_attempts is the number of its
\* assessment records and its successful_attempts the number of those with
\* is_correct true, and this holds also for the first assessment of a pair,
\* which creates the record in the same call.
C22_CountersMatchLog == CountersMatchLog /\ FirstAssessmentCounted

\* C27 (SpecUpdate): time_spent_minutes is a monotonic non-negative
\* accumulator: no call makes a record's time_spent_minutes smaller or
\* negative, whatever time_spent_minutes a manual update supplies.
C27_TimeNeverDecreases ==
    [][\A i \in DOMAIN progress_records :
          /\ i \in DOMAIN progress_records'
          /\ progress_records'[i].time_spent_minutes
                 >= progress_records[i].time_spent_minutes
          /\ progress_records'[i].time_spent_minutes >= 0]_vars

\* the attributes of a progress record that no assessment touches
AssessmentFrame ==
    {"id", "topic_id", "confidence_score", "time_spent_minutes",
     "perceived_difficulty", "engagement_level"}

\* C30 (Spec): record_skill_assessment for topic T changes only the
\* progress record of T and the assessment log: it leaves the
\* confidence_score, time_spent_minutes, perceived_difficulty and
\* engagement_level of T's record, every record of another topic, the
\* topics and the study sessions as they were.
C30_AssessmentFrame ==
    [][last'.op = "record_skill_assessment" =>
          /\ UNCHANGED <<topics, study_sessions>>
          /\ \A i \in DOMAIN progress_records' :
                 i \notin DOMAIN progress_records =>
                     progress_records'[i].topic_id = last'.request.topic_id
          /\ \A i \in DOMAIN progress_records :
                 /\ i \in DOMAIN progress_records'
                 /\ progress_records[i].topic_id # last'.request.topic_id =>
                        progress_records'[i] = progress_records[i]
                 /\ \A n \in AssessmentFrame :
                        progress_records'[i][n] = progress_records[i][n]]_vars

\* an assessment of topic 1 has been committed on a record that holds a
\* minute, a confidence and a difficulty, next to a record of topic 2
C30_Witness ==
    /\ CommittedRequest("record_skill_assessment")
    /\ Addressed.topic_id = 1
    /\ Addressed.total_attempts >= 1
    /\ Addressed.time_spent_minutes = 1
    /\ Addressed.confidence_score = 85
    /\ Addressed.perceived_difficulty # None
    /\ RecordsOf(progress_records, 2) # <<>>

---------------------------------------------------------------------------
(* Claims about requests in flight together, checked under SpecSessions *)

\* C16: in every reachable state there is at most one progress record per
\* (learner, topic) pair, also after two requests that both ran their
\* find-or-create select before either committed.
C16_OneRecordPerPair ==
    \A k \in DOMAIN topics : Len(RecordsOf(progress_records, topics[k].id)) <= 1

\* the assessment records appended for progress record i
AssessmentCount(i) ==
    Cardinality({k \in DOMAIN skill_assessment_records :
                    skill_assessment_records[k].progress_record_id = i})

\* more assessment records than attempts counted: an update was lost
LostUpdate(i) == AssessmentCount(i) > progress_records[i].total_attempts

\* C17: two record_skill_assessment calls interleaved on one pair can lose
\* an update (two assessment records appended, total_attempts grown by
\* one), and an update is lost only so: while no commit has written over a
\* row changed since its request's select, every record's total_attempts
\* is the number of its assessment records.
C17_LostUpdateOnlyWhenInterleaved ==
    (\A p \in Clients : ~sessions[p].raced) =>
        \A i \in DOMAIN progress_records :
            AssessmentCount(i) = progress_records[i].total_attempts

\* two assessments of record 1 committed, both computed from
\* total_attempts = 0: two assessment records and total_attempts = 1
C17_Witness ==
    /\ \E p \in Clients : sessions[p].raced
    /\ \A p \in Clients : sessions[p].pc = "idle"
    /\ Len(progress_records) = 1
    /\ AssessmentCount(1) = 2
    /\ progress_records[1].total_attempts = 1
    /\ LostUpdate(1)

\* C18: a record_skill_assessment whose commit fails raises the storage
\* error to its caller, is not tried again, and persists neither the
\* assessment record nor any change of a progress record; and every step
\* that appends an assessment record is a commit that also writes the
\* total_attempts its request computed and, on a row unchanged since the
\* request's select, the successful_attempts, success_rate, mastery_level
\* and last_practice_at it computed.
C18_OneTransaction ==
    /\ [][(last'.op = "record_skill_assessment" /\ last'.step = "commit"
              /\ last' # last /\ last'.raised # None) =>
            /\ progress_records' = progress_records
            /\ skill_assessment_records' = skill_assessment_records
            /\ sessions'[last'.client].pc = "idle"
            /\ sessions'[last'.client].served = sessions[last'.client].served]_vars
    /\ [][skill_assessment_records' # skill_assessment_records =>
            LET p == last'.client
                added == skill_assessment_records'[Len(skill_assessment_records')]
                written == progress_records'[added.progress_record_id]
                object == sessions[p].object
            IN  /\ last'.op = "record_skill_assessment"
                /\ last'.step = "commit"
                /\ last'.raised = None
                /\ Len(skill_assessment_records') = Len(skill_assessment_records) + 1
                /\ written.total_attempts = object.total_attempts
                /\ progress_records[object.id] = sessions[p].loaded =>
                       /\ written.successful_attempts = object.successful_attempts
                       /\ written.success_rate = object.success_rate
                       /\ written.mastery_level = object.mastery_level
                       /\ written.last_practice_at = object.last_practice_at]_vars
    /\ [][(last'.op = "record_skill_assessment" /\ last'.step = "commit"
              /\ last' # last /\ last'.raised = None) =>
            Len(skill_assessment_records') = Len(skill_assessment_records) + 1]_vars

\* the commit of an assessment of record 1 has failed: the error is raised,
\* the request is over, no assessment record is there and the record's
\* counters are untouched
C18_Witness ==
    /\ last.op = "record_skill_assessment"
    /\ last.step = "commit"
    /\ last.raised = Some("OperationalError")
    /\ sessions[last.client].pc = "idle"
    /\ skill_assessment_records = <<>>
    /\ Len(progress_records) = 1
    /\ progress_records[1].total_attempts = 0
    /\ progress_records[1].mastery_level = NOT_STARTED

\* the step is the successful commit of a record_skill_assessment call
AssessmentCommitted ==
    \E p \in Clients :
        /\ sessions[p].pc = "dirty"
        /\ sessions[p].op = "record_skill_assessment"
        /\ sessions'[p].pc = "idle"
        /\ last'.client = p
        /\ last'.raised = None

\* C21: the assessment log is append-only: no step changes or removes a
\* record that is in it, the successful commit of a record_skill_assessment
\* call adds exactly one record, and no other step (a select, a failed
\* commit, any step of update_topic_progress) adds any.
C21_AppendOnlyLog ==
    [][/\ Len(skill_assessment_records') >= Len(skill_assessment_records)
       /\ SubSeq(skill_assessment_records', 1, Len(skill_assessment_records))
              = skill_assessment_records
       /\ Len(skill_assessment_records')
              = Len(skill_assessment_records)
                    + (IF AssessmentCommitted THEN 1 ELSE 0)]_vars

\* a second assessment has been committed after a first with the other
\* answer: the log holds both, the older one first
C21_Witness ==
    /\ last.op = "record_skill_assessment"
    /\ last.step = "commit"
    /\ last.raised = None
    /\ Len(skill_assessment_records) = 2
    /\ skill_assessment_records[1].id = 1
    /\ skill_assessment_records[2].id = 2
    /\ skill_assessment_records[1].is_correct # skill_assessment_records[2].is_correct

---------------------------------------------------------------------------
(* Claims about the streak walk in flight, checked under SpecWalk *)

\* the streak of a fixed set of sessions, counted back from day current_date
SnapshotStreak(rows, current_date) ==
    StreakWalk(rows, current_date, 0,
               [streak_days |-> 0, longest_streak |-> 0]).streak_days

\* C28: a streak computed while study sessions are appended lies between
\* the streak of the sessions there were when the walk began and the
\* streak of the sessions there are when it returns, and no step of the
\* computation changes the stored sessions, records, log or topics.
C28_StaleSnapshotTolerance ==
    [][sessions' # sessions =>
          /\ UNCHANGED <<topics, progress_records, skill_assessment_records,
                         study_sessions>>
          /\ sessions'.pc = "idle" =>
                 /\ SnapshotStreak(last'.started_with, last'.current_date)
                        <= last'.response.current_streak
                 /\ last'.response.current_streak
                        <= SnapshotStreak(study_sessions', last'.current_date)]_vars

\* a walk that began with a session of today alone has returned 2: the
\* session of yesterday was recorded after the walk began
C28_Witness ==
    /\ last.op = "calculate_study_streak"
    /\ last.step = "return"
    /\ SnapshotStreak(last.started_with, last.current_date) = 1
    /\ last.response.current_streak = 2
    /\ SnapshotStreak(study_sessions, last.current_date) = 2
    /\ Len(last.started_with) < Len(study_sessions)

---------------------------------------------------------------------------
(* Claims about malformed requests, checked under SpecAssess *)

\* the request names no topic of the topics table
UnknownTopic(request) == TopicOf(topics, request.topic_id) = None

\* C19: a record_skill_assessment call whose score lies outside
\* [0, max_score] or whose topic_id is that of no topic is answered with a
\* validation error and leaves the progress records and the assessment log
\* as they were.
C19_MalformedRejected ==
    [][(last'.op = "record_skill_assessment" /\ last' # last
          /\ (\/ last'.request.score < 0
              \/ last'.request.score > last'.request.max_score
              \/ UnknownTopic(last'.request))) =>
         /\ last'.raised = Some("ValidationError")
         /\ progress_records' = progress_records
         /\ skill_assessment_records' = skill_assessment_records]_vars

====
